---- MODULE Spec2Model ----
(***************************************************************************)
(* Model of remove_shots and detect_peaks of the signal_processing        *)
(* package (src/__init__.py).                                              *)
(*                                                                         *)
(* Samples are exact rationals (numerator n, denominator d > 0, lowest     *)
(* terms), the missing marker None, or NaN (numpy's mean of an empty       *)
(* list).  Floating-point rounding is not modelled: arithmetic is exact.   *)
(* Python indices are kept 0-based: a signal is a function on 0..n-1.      *)
(* A Python list such as shot_indexes is a TLA+ sequence, so the Python    *)
(* element shot_indexes[i] is shot_indexes[i + 1] here.                    *)
(***************************************************************************)
EXTENDS Integers, Sequences, FiniteSets

VARIABLES input, crit, signal, shot_indexes, i, pc,
          shot_index, start_index, stop_index, start_value, writes,
          psignal, lookahead, delta, index, max_value, max_pos,
          min_value, min_pos, peaks, valleys, confirmed, ppc

shotVars == <<input, crit, signal, shot_indexes, i, pc,
              shot_index, start_index, stop_index, start_value, writes>>
peakVars == <<psignal, lookahead, delta, index, max_value, max_pos,
              min_value, min_pos, peaks, valleys, confirmed, ppc>>
vars == <<shotVars, peakVars>>

(***************************************************************************)
(* Bounds of the model.                                                    *)
(***************************************************************************)
MaxLen == 5
MaxPeakLen == 7
MaxLookahead == 3
MaxDelta == 1

(***************************************************************************)
(* Sample values.                                                          *)
(***************************************************************************)
None == [k |-> "none", n |-> 0, d |-> 1]
NaN == [k |-> "nan", n |-> 0, d |-> 1]
Num(x) == [k |-> "num", n |-> x, d |-> 1]

Abs(x) == IF x < 0 THEN -x ELSE x

RECURSIVE GCD(_, _)
GCD(a, b) == IF b = 0 THEN a ELSE GCD(b, a % b)

\* The rational n/d (d > 0) in lowest terms.
Rat(n, d) ==
    LET g == GCD(Abs(n), d)
    IN [k |-> "num", n |-> n \div g, d |-> d \div g]

IsNaN(a) == a.k = "nan"

\* Float arithmetic on two non-missing operands: NaN is absorbing.
Add(a, b) == IF IsNaN(a) \/ IsNaN(b) THEN NaN
             ELSE Rat(a.n * b.d + b.n * a.d, a.d * b.d)
Sub(a, b) == IF IsNaN(a) \/ IsNaN(b) THEN NaN
             ELSE Rat(a.n * b.d - b.n * a.d, a.d * b.d)
Mul(a, b) == IF IsNaN(a) \/ IsNaN(b) THEN NaN
             ELSE Rat(a.n * b.n, a.d * b.d)
AbsV(a) == IF IsNaN(a) THEN NaN ELSE [a EXCEPT !.n = Abs(a.n)]
\* Float comparison a > b: false when either side is NaN.
Gt(a, b) == ~IsNaN(a) /\ ~IsNaN(b) /\ a.n * b.d > b.n * a.d

Size(sig) == Cardinality(DOMAIN sig)

RECURSIVE SetToSortedSeq(_)
SetToSortedSeq(S) ==
    IF S = {} THEN <<>>
    ELSE LET m == CHOOSE x \in S : \A y \in S : x <= y
         IN <<m>> \o SetToSortedSeq(S \ {m})

Range(s) == {s[x] : x \in DOMAIN s}

\* [i for (i, sample) in enumerate(signal) if P]: the indices of S, ascending.
IndexList(S) == SetToSortedSeq(S)

HasNone(sig) == \E x \in DOMAIN sig : sig[x] = None

RECURSIVE SumOver(_, _)
SumOver(f, S) ==
    IF S = {} THEN Num(0)
    ELSE LET x == CHOOSE y \in S : TRUE
         IN Add(f[x], SumOver(f, S \ {x}))

\* np.average of the values of f at the indices S: NaN for an empty list.
Average(f, S) ==
    IF S = {} THEN NaN
    ELSE LET s == SumOver(f, S)
         IN IF IsNaN(s) THEN NaN ELSE Rat(s.n, s.d * Cardinality(S))

\* np.std(signal) ** 2: the population variance.
Variance(sig) ==
    LET avg == Average(sig, DOMAIN sig)
        sq == [x \in DOMAIN sig |-> Mul(Sub(sig[x], avg), Sub(sig[x], avg))]
    IN Average(sq, DOMAIN sig)

(***************************************************************************)
(* remove_shots: the criteria (lines 87-107).                              *)
(***************************************************************************)
HighShots(sig, c) ==
    IF c.threshold_high = None THEN <<>>
    ELSE IndexList({x \in DOMAIN sig : Gt(sig[x], c.threshold_high)})

LowShots(sig, c) ==
    IF c.threshold_low = None THEN <<>>
    ELSE IndexList({x \in DOMAIN sig : Gt(c.threshold_low, sig[x])})

\* (sample - average if positive_only else abs(sample - average))
\*     > deviation * devs,
\* with deviation = sqrt(variance) and devs >= 0: both sides of the
\* comparison are squared when the left side is not negative.
DevExceeds(sample, average, variance, c) ==
    LET diff == Sub(sample, average)
        lhs == IF c.positive_only THEN diff ELSE AbsV(diff)
    IN /\ lhs.n >= 0
       /\ Gt(Mul(lhs, lhs), Mul(variance, Mul(c.devs, c.devs)))

DevShots(sig, c) ==
    IF c.devs = None THEN <<>>
    ELSE LET average == Average(sig, DOMAIN sig)
             variance == Variance(sig)
         IN IndexList({x \in DOMAIN sig :
                          DevExceeds(sig[x], average, variance, c)})

NoneShots(sig, c) ==
    IF c.nones THEN IndexList({x \in DOMAIN sig : sig[x] = None}) ELSE <<>>

ZeroShots(sig, c) ==
    IF c.zeros THEN IndexList({x \in DOMAIN sig : sig[x] = Num(0)}) ELSE <<>>

\* The sample the jump criterion compares signal[j] with: signal[i], the
\* sample the inner loop started from.
JumpReferencePrevious(a, b) == b - 1
JumpReference(a, b) == a

\* The jump loops (lines 101-107).  JumpOuter is the head of the outer
\* while, JumpInner the head of the inner one; the result is the list of
\* appended indices, or err when abs(signal[j] - signal[i]) meets None.
RECURSIVE JumpOuter(_, _, _, _)
RECURSIVE JumpInner(_, _, _, _, _)
JumpOuter(sig, jump, a, acc) ==
    IF a < Size(sig) - 1 THEN JumpInner(sig, jump, a, a + 1, acc)
    ELSE [err |-> FALSE, shots |-> acc]
JumpInner(sig, jump, a, b, acc) ==
    IF b < Size(sig)
    THEN LET ref == sig[JumpReference(a, b)]
         IN IF sig[b] = None \/ ref = None
            THEN [err |-> TRUE, shots |-> acc]
            ELSE IF Gt(AbsV(Sub(sig[b], ref)), jump)
                 THEN JumpInner(sig, jump, a, b + 1, Append(acc, b))
                 ELSE JumpOuter(sig, jump, b, acc)
    ELSE JumpOuter(sig, jump, b, acc)

JumpShots(sig, c) ==
    IF c.jump = None THEN [err |-> FALSE, shots |-> <<>>]
    ELSE JumpOuter(sig, c.jump, 0, <<>>)

\* A comparison or subtraction with None raises TypeError (Python 3).
DetectRaises(sig, c) ==
    \/ c.threshold_high # None /\ HasNone(sig)
    \/ c.threshold_low # None /\ HasNone(sig)
    \/ c.devs # None /\ HasNone(sig)
    \/ JumpShots(sig, c).err

\* shot_indexes before line 108, duplicates included.
ShotList(sig, c) ==
    HighShots(sig, c) \o LowShots(sig, c) \o DevShots(sig, c)
        \o NoneShots(sig, c) \o ZeroShots(sig, c) \o JumpShots(sig, c).shots

RECURSIVE Insert(_, _)
Insert(s, x) ==
    IF s = <<>> THEN <<x>>
    ELSE IF x <= Head(s) THEN <<x>> \o s
         ELSE <<Head(s)>> \o Insert(Tail(s), x)

RECURSIVE SortKeepDuplicates(_)
SortKeepDuplicates(s) ==
    IF s = <<>> THEN <<>> ELSE Insert(SortKeepDuplicates(Tail(s)), Head(s))

\* shot_indexes = list(set(shot_indexes)); shot_indexes.sort()
SortedUnique(s) == SetToSortedSeq(Range(s))

(***************************************************************************)
(* remove_shots: one iteration of the replacement loop (lines 112-127).    *)
(***************************************************************************)
\* The while of lines 116-118, from stop_index = stop and j = jj.
RECURSIVE Extend(_, _, _, _)
Extend(shots, ii, jj, stop) ==
    IF ii + jj < Len(shots) /\ stop = shots[ii + jj + 1]
    THEN Extend(shots, ii, jj + 1, stop + 1)
    ELSE stop

StopExtendNone(shots, ii) == shots[ii + 1] + 1
\* stop_index after lines 114-118.
StopExtend(shots, ii) == Extend(shots, ii, 1, shots[ii + 1] + 1)

\* Lines 119-120.
Clamp(stop, len) == IF stop = len THEN len - 1 ELSE stop

PosFromRunLength(shot, start, stop) == Rat(shot - start, stop - start + 1)
\* Line 121.
Pos(shot, start, stop) == Rat(shot - start, stop - start)

NotNone(sig) == {x \in DOMAIN sig : sig[x] # None}

\* Line 122.
StartValue(sig, start) ==
    IF start > 0 THEN sig[start] ELSE Average(sig, NotNone(sig))

\* Lines 123-126: the value stored, or err for arithmetic on None.
Replacement(sig, shot, start, stop) ==
    LET sv == StartValue(sig, start)
    IN IF sig[stop] # None
       THEN IF sv = None THEN [err |-> TRUE, value |-> None]
            ELSE [err |-> FALSE,
                  value |-> Add(sv, Mul(Sub(sig[stop], sv),
                                        Pos(shot, start, stop)))]
       ELSE [err |-> FALSE, value |-> sv]

(***************************************************************************)
(* remove_shots as a state machine.  pc: "detect" (line 85 done, the       *)
(* criteria not yet evaluated), "replace" (at the head of the while of     *)
(* line 111), "done" (returned signal), "error" (an exception left the     *)
(* call, nothing is returned).  writes counts the stores to signal[k].     *)
(***************************************************************************)
SampleValues == {None, Num(0), Num(1), Num(6)}

Signals == UNION {[0..(len - 1) -> SampleValues] : len \in 1..MaxLen}

Criteria ==
    [threshold_high : {None, Num(5)},
     threshold_low : {None, Num(1)},
     devs : {None, Num(1)},
     positive_only : BOOLEAN,
     nones : BOOLEAN,
     zeros : BOOLEAN,
     jump : {None, Num(3)}]

NoCriteria ==
    [threshold_high |-> None, threshold_low |-> None, devs |-> None,
     positive_only |-> FALSE, nones |-> FALSE, zeros |-> FALSE, jump |-> None]

ToSignal(s) == [x \in 0..(Len(s) - 1) |-> Num(s[x + 1])]

\* The jump example: [0,0,0,100,0,0,0] with jump=5.
JumpExampleSignal == ToSignal(<<0, 0, 0, 100, 0, 0, 0>>)
JumpExampleCriteria == [NoCriteria EXCEPT !.jump = Num(5)]
\* The boundary example: [10,10,10,1000] with threshold_high=100.
EndExampleSignal == ToSignal(<<10, 10, 10, 1000>>)
EndExampleCriteria == [NoCriteria EXCEPT !.threshold_high = Num(100)]

Calls ==
    {sc \in [signal : Signals, crit : Criteria] :
        sc.crit.positive_only => sc.crit.devs # None}
    \cup {[signal |-> JumpExampleSignal, crit |-> JumpExampleCriteria],
          [signal |-> EndExampleSignal, crit |-> EndExampleCriteria]}

PeakIdle ==
    /\ psignal = <<>>
    /\ lookahead = 1
    /\ delta = 0
    /\ index = 0
    /\ max_value = 0
    /\ max_pos = 0
    /\ min_value = 0
    /\ min_pos = 0
    /\ peaks = <<>>
    /\ valleys = <<>>
    /\ confirmed = <<>>
    /\ ppc = "idle"

InitShots ==
    /\ \E sc \in Calls :
          /\ input = sc.signal
          /\ crit = sc.crit
          /\ signal = sc.signal
          /\ writes = [x \in DOMAIN sc.signal |-> 0]
    /\ shot_indexes = <<>>
    /\ i = 0
    /\ pc = "detect"
    /\ shot_index = -1
    /\ start_index = -1
    /\ stop_index = -1
    /\ start_value = None
    /\ PeakIdle

\* Lines 86-110.
Detect ==
    /\ pc = "detect"
    /\ IF DetectRaises(signal, crit)
       THEN /\ pc' = "error"
            /\ UNCHANGED shot_indexes
       ELSE /\ pc' = "replace"
            /\ shot_indexes' = SortedUnique(ShotList(signal, crit))
    /\ i' = 0
    /\ UNCHANGED <<input, crit, signal, shot_index, start_index, stop_index,
                   start_value, writes>>
    /\ UNCHANGED peakVars

\* Lines 111-127: one iteration of the replacement loop.
ReplaceStep ==
    /\ pc = "replace"
    /\ i < Len(shot_indexes)
    /\ LET shot == shot_indexes[i + 1]
           start == shot - 1
           stop == Clamp(StopExtend(shot_indexes, i), Size(signal))
           r == Replacement(signal, shot, start, stop)
       IN /\ shot_index' = shot
          /\ start_index' = start
          /\ stop_index' = stop
          /\ start_value' = StartValue(signal, start)
          /\ IF r.err
             THEN /\ pc' = "error"
                  /\ UNCHANGED <<signal, writes, i>>
             ELSE /\ signal' = [signal EXCEPT ![shot] = r.value]
                  /\ writes' = [writes EXCEPT ![shot] = @ + 1]
                  /\ i' = i + 1
                  /\ pc' = "replace"
    /\ UNCHANGED <<input, crit, shot_indexes>>
    /\ UNCHANGED peakVars

\* Line 128.
Return ==
    /\ pc = "replace"
    /\ i >= Len(shot_indexes)
    /\ pc' = "done"
    /\ UNCHANGED <<input, crit, signal, shot_indexes, i, shot_index,
                   start_index, stop_index, start_value, writes>>
    /\ UNCHANGED peakVars

NextShots == Detect \/ ReplaceStep \/ Return

SpecShots == InitShots /\ [][NextShots]_vars

(***************************************************************************)
(* detect_peaks (lines 158-192).  max_value and min_value range over the   *)
(* samples (integers here) and the sentinels np.Inf and -np.Inf: an        *)
(* extended value is [inf |-> -1, 0 or 1, v |-> the number when inf = 0].  *)
(***************************************************************************)
PosInf == [inf |-> 1, v |-> 0]
NegInf == [inf |-> -1, v |-> 0]
Fin(x) == [inf |-> 0, v |-> x]

\* a < b on extended values.
ELt(a, b) == \/ a.inf < b.inf
             \/ a.inf = 0 /\ b.inf = 0 /\ a.v < b.v
\* a + x for a finite number x: the sentinels absorb it.
EPlus(a, x) == IF a.inf = 0 THEN Fin(a.v + x) ELSE a

\* signal[:-lookahead]: the number of scanned samples.
ScanLen(sig, la) == IF Len(sig) > la THEN Len(sig) - la ELSE 0

\* signal[index:index + lookahead], as Python indices (the slice is cut at
\* the end of the signal).
Window(sig, idx, la) ==
    {x \in idx..(idx + la - 1) : x < Len(sig)}
WindowMax(sig, idx, la) ==
    LET w == Window(sig, idx, la)
    IN sig[1 + CHOOSE x \in w : \A y \in w : sig[y + 1] <= sig[x + 1]]
WindowMin(sig, idx, la) ==
    LET w == Window(sig, idx, la)
    IN sig[1 + CHOOSE x \in w : \A y \in w : sig[y + 1] >= sig[x + 1]]

\* Lines 179-180: the trackers after a peak is confirmed.
MaxAfterPeakKept(mx) == mx
MaxAfterPeak(mx) == PosInf
MinAfterPeakKept(mn) == mn
MinAfterPeak(mn) == PosInf
\* Lines 188-189: the trackers after a valley is confirmed.
MinAfterValley(mn) == NegInf
MaxAfterValley(mx) == NegInf

\* Lines 175-176.
PeakConfirmed(sig, idx, la, dl, value, mx) ==
    /\ ELt(Fin(value), EPlus(mx, -dl))
    /\ mx # PosInf
    /\ ELt(Fin(WindowMax(sig, idx, la)), mx)

\* Lines 184-185.
ValleyConfirmed(sig, idx, la, dl, value, mn) ==
    /\ ELt(EPlus(mn, dl), Fin(value))
    /\ mn # NegInf
    /\ ELt(mn, Fin(WindowMin(sig, idx, la)))

PeakValues == {0, 1, 2}

PeakSignals == UNION {[1..len -> PeakValues] : len \in 1..MaxPeakLen}

\* The extrema example: lookahead=3, delta=0.
ExtremaExampleSignal == <<0, 1, 2, 3, 2, 1, 0, -1, -2, -1, 0, 1, 2>>

PeakCalls ==
    [signal : PeakSignals, lookahead : 1..MaxLookahead, delta : 0..MaxDelta]
    \cup {[signal |-> ExtremaExampleSignal, lookahead |-> 3, delta |-> 0]}

ShotsIdle ==
    /\ input = <<>>
    /\ crit = NoCriteria
    /\ signal = <<>>
    /\ shot_indexes = <<>>
    /\ i = 0
    /\ pc = "idle"
    /\ shot_index = -1
    /\ start_index = -1
    /\ stop_index = -1
    /\ start_value = None
    /\ writes = <<>>

\* Lines 164-167; max_pos and min_pos are unbound (-1) until first assigned.
InitPeaks ==
    /\ \E c \in PeakCalls :
          /\ psignal = c.signal
          /\ lookahead = c.lookahead
          /\ delta = c.delta
    /\ index = 0
    /\ max_value = NegInf
    /\ min_value = PosInf
    /\ max_pos = -1
    /\ min_pos = -1
    /\ peaks = <<>>
    /\ valleys = <<>>
    /\ confirmed = <<>>
    /\ ppc = "scan"
    /\ ShotsIdle

\* Lines 168-191: the loop body for the sample at index.  confirmed logs
\* each append to peaks or valleys with the index of the confirming sample.
ScanStep ==
    /\ ppc = "scan"
    /\ index < ScanLen(psignal, lookahead)
    /\ LET value == psignal[index + 1]
           newMax == ELt(max_value, Fin(value))
           mx == IF newMax THEN Fin(value) ELSE max_value
           mxp == IF newMax THEN index ELSE max_pos
           newMin == ELt(Fin(value), min_value)
           mn == IF newMin THEN Fin(value) ELSE min_value
           mnp == IF newMin THEN index ELSE min_pos
           stop == index + lookahead >= Len(psignal)
       IN IF PeakConfirmed(psignal, index, lookahead, delta, value, mx)
          THEN /\ peaks' = Append(peaks, <<mxp, mx.v>>)
               /\ confirmed' = Append(confirmed,
                      [kind |-> "peak", pos |-> mxp, at |-> index])
               /\ max_value' = MaxAfterPeak(mx)
               /\ min_value' = MinAfterPeak(mn)
               /\ max_pos' = mxp
               /\ min_pos' = mnp
               /\ ppc' = IF stop THEN "done" ELSE "scan"
               /\ index' = IF stop THEN index ELSE index + 1
               /\ UNCHANGED valleys
          ELSE IF ValleyConfirmed(psignal, index, lookahead, delta, value, mn)
          THEN /\ valleys' = Append(valleys, <<mnp, mn.v>>)
               /\ confirmed' = Append(confirmed,
                      [kind |-> "valley", pos |-> mnp, at |-> index])
               /\ min_value' = MinAfterValley(mn)
               /\ max_value' = MaxAfterValley(mx)
               /\ max_pos' = mxp
               /\ min_pos' = mnp
               /\ ppc' = IF stop THEN "done" ELSE "scan"
               /\ index' = IF stop THEN index ELSE index + 1
               /\ UNCHANGED peaks
          ELSE /\ max_value' = mx
               /\ min_value' = mn
               /\ max_pos' = mxp
               /\ min_pos' = mnp
               /\ index' = index + 1
               /\ UNCHANGED <<peaks, valleys, confirmed, ppc>>
    /\ UNCHANGED <<psignal, lookahead, delta>>
    /\ UNCHANGED shotVars

\* Line 192, reached when the for loop is exhausted.
ScanReturn ==
    /\ ppc = "scan"
    /\ index >= ScanLen(psignal, lookahead)
    /\ ppc' = "done"
    /\ UNCHANGED <<psignal, lookahead, delta, index, max_value, max_pos,
                   min_value, min_pos, peaks, valleys, confirmed>>
    /\ UNCHANGED shotVars

NextPeaks == ScanStep \/ ScanReturn

SpecPeaks == InitPeaks /\ [][NextPeaks]_vars

(***************************************************************************)
(* Properties of remove_shots (checked under SpecShots).                   *)
(***************************************************************************)
\* The criteria have been evaluated without an exception.
Detected == pc \in {"replace", "done"}

\* The flagged indices: the elements of shot_indexes after line 109.
Flagged == Range(shot_indexes)

LastIndex == Size(input) - 1

\* a..b is a maximal block of consecutive flagged indices.
IsRun(a, b) ==
    /\ a <= b
    /\ \A x \in a..b : x \in Flagged
    /\ (a - 1) \notin Flagged
    /\ (b + 1) \notin Flagged

\* sv + (ev - sv) * num / den
Interpolate(sv, ev, num, den) == Add(sv, Mul(Sub(ev, sv), Rat(num, den)))

\* A run that starts at index >= 2 and is followed by a non-missing sample,
\* with a non-missing sample before it.
InnerRun(a, b) ==
    /\ IsRun(a, b)
    /\ a >= 2
    /\ b + 1 <= LastIndex
    /\ input[b + 1] # None
    /\ input[a - 1] # None

JumpExampleCall ==
    input = JumpExampleSignal /\ crit = JumpExampleCriteria

\* C2 (as stated): for [0,0,0,100,0,0,0] with only jump=5, the jump
\* criterion flags index 3 and cascades to index 4.
C2_JumpCascadesToIndex4 ==
    (JumpExampleCall /\ Detected) =>
        (3 \in Range(shot_indexes) /\ 4 \in Range(shot_indexes))

\* C2 (amended): for [0,0,0,100,0,0,0] with only jump=5, the jump criterion
\* flags index 3 and nothing else: index 4 is compared with the sample at
\* index 2, from which the inner loop started, and is not flagged.
C2_JumpFlagsOnlyIndex3 ==
    (JumpExampleCall /\ Detected) =>
        (shot_indexes = <<3>> /\ JumpShots(input, crit).shots = <<3>>)

C2_Witness ==
    JumpExampleCall /\ pc = "done" /\ writes[3] = 1

\* C3: a run of flagged indices that extends to the last index and is
\* preceded by an unflagged sample at index >= 1 ends with every index of
\* the run, the last index included, holding the value of the sample
\* immediately before the run.
C3_EndRunHoldsLastGoodValue ==
    pc = "done" =>
        \A a \in 2..LastIndex :
            IsRun(a, LastIndex) =>
                \A x \in a..LastIndex : signal[x] = input[a - 1]

\* C4: remove_shots with nones=True on a non-empty signal whose samples are
\* all missing ends in an error and never returns a signal.
C4_AllMissingRaises ==
    (crit.nones /\ pc # "idle" /\ \A x \in DOMAIN input : input[x] = None)
        => pc # "done"

\* C5: the indices written by the replacement loop are exactly the flagged
\* indices, each written exactly once: no index is ever written twice, only
\* flagged indices are written, and in the returned signal every flagged
\* index has been written once and every other index holds its input value
\* (so a signal with no flagged index is returned unchanged).
C5_WritesExactlyFlagged ==
    Detected =>
        /\ \A x \in DOMAIN input :
              /\ writes[x] <= 1
              /\ writes[x] = 1 => x \in Flagged
              /\ x \notin Flagged => signal[x] = input[x]
        /\ pc = "done" =>
              /\ \A x \in Flagged : writes[x] = 1
              /\ Flagged = {} => signal = input

\* A returned signal with an index flagged by two criteria, a run of two
\* flagged indices and an unflagged index.
C5_Witness ==
    /\ pc = "done"
    /\ Len(ShotList(input, crit)) > Cardinality(Flagged)
    /\ \E x \in DOMAIN input : x \in Flagged /\ (x + 1) \in Flagged
    /\ \E x \in DOMAIN input : x \notin Flagged

\* C7 (as stated): every index x of a run a..b (a >= 2, a non-missing
\* unflagged sample right after it) is written
\* start_value + (stop_value - start_value) * (x - a) / (stop - start),
\* the fraction measured from the run's first flagged index a.
C7_FractionFromShotIndex ==
    pc = "done" =>
        \A a, b \in DOMAIN input :
            InnerRun(a, b) =>
                \A x \in a..b :
                    signal[x] = Interpolate(input[a - 1], input[b + 1],
                                            x - a, (b + 1) - (a - 1))

\* C7 (amended): every index x of such a run is written
\* start_value + (stop_value - start_value) * (x - start) / (stop - start),
\* the fraction measured from start_index = a - 1: the plain linear
\* interpolation between the two samples around the run.
C7_FractionFromStartIndex ==
    pc = "done" =>
        \A a, b \in DOMAIN input :
            InnerRun(a, b) =>
                \A x \in a..b :
                    signal[x] = Interpolate(input[a - 1], input[b + 1],
                                            x - (a - 1), (b + 1) - (a - 1))

\* A returned signal with a run of at least two indices between two
\* different samples.
C7_Witness ==
    /\ pc = "done"
    /\ \E a, b \in DOMAIN input :
          InnerRun(a, b) /\ a < b /\ input[a - 1] # input[b + 1]

\* An iteration of the replacement loop has run; shot_index, start_index,
\* stop_index and start_value are those of the latest one.
Stepped == shot_index >= 0

\* C8: the mean of the non-missing samples is the start value only for a
\* flagged index 0; for every flagged index >= 1, index 1 included, the
\* start value is the sample at the index before it.
C8_MeanOnlyAtIndexZero ==
    (Stepped /\ shot_index >= 1) => start_value = signal[start_index]

ExtremaExampleCall ==
    psignal = ExtremaExampleSignal /\ lookahead = 3 /\ delta = 0

\* C1: on [0,1,2,3,2,1,0,-1,-2,-1,0,1,2] with lookahead=3 and delta=0,
\* detect_peaks returns exactly one peak, (3, 3), and exactly one valley,
\* (8, -2).
C1_ExampleOnePeakOneValley ==
    (ExtremaExampleCall /\ ppc = "done") =>
        (peaks = <<<<3, 3>>>> /\ valleys = <<<<8, -2>>>>)

\* C6: extrema are confirmed in strictly increasing index order across both
\* lists: an extremum confirmed later lies after the sample that confirmed
\* any earlier one (so a candidate tracked at or before that sample is never
\* reported afterwards), and peaks and valleys are each strictly ascending
\* by index.
C6_ConfirmedInIndexOrder ==
    /\ \A a \in DOMAIN confirmed : confirmed[a].pos <= confirmed[a].at
    /\ \A a, b \in DOMAIN confirmed :
          a < b => confirmed[a].at < confirmed[b].pos
    /\ \A a, b \in DOMAIN peaks : a < b => peaks[a][1] < peaks[b][1]
    /\ \A a, b \in DOMAIN valleys : a < b => valleys[a][1] < valleys[b][1]

\* A peak confirmed first, while a valley candidate was tracked, and a valley
\* confirmed after it.
C6_Witness ==
    /\ Len(confirmed) >= 2
    /\ confirmed[1].kind = "peak"
    /\ confirmed[2].kind = "valley"

\* C10: with delta >= 0, at most one extremum is confirmed per scanned
\* sample and the confirmations alternate in type, so the lengths of peaks
\* and valleys differ by at most 1.
C10_ConfirmationsAlternate ==
    /\ Len(confirmed) = Len(peaks) + Len(valleys)
    /\ \A a \in DOMAIN confirmed :
          (a + 1) \in DOMAIN confirmed =>
              /\ confirmed[a].kind # confirmed[a + 1].kind
              /\ confirmed[a].at < confirmed[a + 1].at
    /\ Len(peaks) - Len(valleys) \in {-1, 0, 1}

\* Three confirmations in one scan.
C10_Witness ==
    ppc = "done" /\ Len(confirmed) >= 3

====
